---- MODULE Spec2Model ----
(***************************************************************************)
(* IterationCapacity (src/main.go): one run of main() as a state machine,  *)
(* with the SQLite file data.sqlite as durable state.                      *)
(*                                                                         *)
(* Numbers.  float64 values are modelled as exact rationals [n, d] in      *)
(* lowest terms with d > 0; binary rounding error of float64 arithmetic is *)
(* not modelled.  An SQL value that may be NULL is a rational or Null      *)
(* (d = 0).  Go's int is modelled as an unbounded integer: every value of  *)
(* the model is far below 2^31.                                            *)
(*                                                                         *)
(* Strings are sequences of one-character strings.                         *)
(***************************************************************************)
EXTENDS Integers, Sequences, FiniteSets, TLC

\* ------------------------------------------------------------------ bounds

\* Longest list of iterations the iteration source returns.
MaxIter == 2
\* Longest points_completed.json.
MaxRecords == 1

\* ------------------------------------------------------- float64 as rationals

Abs(x) == IF x < 0 THEN -x ELSE x

RECURSIVE GCD(_, _)
GCD(a, b) == IF b = 0 THEN a ELSE GCD(b, a % b)

\* The rational n/d (d > 0) in lowest terms.
Rat(n, d) == LET g == GCD(Abs(n), d) IN [n |-> n \div g, d |-> d \div g]

\* float64(k) of an int k.
RatInt(k) == [n |-> k, d |-> 1]

\* SQL NULL.
Null == [n |-> 0, d |-> 0]

RatAdd(a, b) == Rat(a.n * b.d + b.n * a.d, a.d * b.d)

RatSub(a, b) == Rat(a.n * b.d - b.n * a.d, a.d * b.d)

RatMul(a, b) == Rat(a.n * b.n, a.d * b.d)

\* a / b for b # 0.
RatDiv(a, b) == IF b.n > 0 THEN Rat(a.n * b.d, a.d * b.n)
                ELSE Rat(-(a.n * b.d), a.d * (-b.n))

\* Go's int(f): the fraction is discarded (truncation toward zero).
TruncToInt(r) == IF r.n >= 0 THEN r.n \div r.d ELSE -((-r.n) \div r.d)

\* Go's math.Round: nearest integer, halves away from zero.
MathRound(r) == IF r.n >= 0 THEN (2 * r.n + r.d) \div (2 * r.d)
                ELSE -((2 * (-r.n) + r.d) \div (2 * r.d))

\* ------------------------------------------------------- extractSprintNumber

\* \s of Go's regexp (RE2): [\t\n\f\r ].
IsSpace(c) == c \in {" ", "\t", "\n", "\f", "\r"}

\* \d of Go's regexp: [0-9].
IsDigit(c) == c \in {"0", "1", "2", "3", "4", "5", "6", "7", "8", "9"}

DigitVal(c) == CASE c = "0" -> 0 [] c = "1" -> 1 [] c = "2" -> 2 [] c = "3" -> 3
                 [] c = "4" -> 4 [] c = "5" -> 5 [] c = "6" -> 6 [] c = "7" -> 7
                 [] c = "8" -> 8 [] c = "9" -> 9

SprintWord == <<"S", "p", "r", "i", "n", "t">>

\* First index >= j of s that holds no whitespace (Len(s)+1 when none): \s+ is greedy.
RECURSIVE SkipSpaces(_, _)
SkipSpaces(s, j) == IF j <= Len(s) /\ IsSpace(s[j]) THEN SkipSpaces(s, j + 1) ELSE j

\* First index >= j of s that holds no digit: \d+ is greedy.
RECURSIVE SkipDigits(_, _)
SkipDigits(s, j) == IF j <= Len(s) /\ IsDigit(s[j]) THEN SkipDigits(s, j + 1) ELSE j

\* `Sprint\s+(\d+)` matches s at index i.
MatchAt(s, i) ==
    /\ i + 5 <= Len(s)
    /\ SubSeq(s, i, i + 5) = SprintWord
    /\ LET k == SkipSpaces(s, i + 6)
       IN  k > i + 6 /\ SkipDigits(s, k) > k

\* re.FindStringSubmatch: the capture group of the leftmost match, <<>> when no match.
FindStringSubmatch(s) ==
    LET starts == {i \in 1..Len(s) : MatchAt(s, i)}
    IN  IF starts = {} THEN <<>>
        ELSE LET i == CHOOSE x \in starts : \A y \in starts : x <= y
                 k == SkipSpaces(s, i + 6)
             IN  SubSeq(s, k, SkipDigits(s, k) - 1)

\* The digit run without its leading zeros.
RECURSIVE StripZeros(_)
StripZeros(d) == IF d # <<>> /\ Head(d) = "0" THEN StripZeros(Tail(d)) ELSE d

MaxInt64Digits == <<"9","2","2","3","3","7","2","0","3","6","8","5","4","7","7","5","8","0","7">>

\* a > b for digit runs of equal length.
RECURSIVE DigitsGreater(_, _)
DigitsGreater(a, b) ==
    IF a = <<>> THEN FALSE
    ELSE IF DigitVal(Head(a)) # DigitVal(Head(b)) THEN DigitVal(Head(a)) > DigitVal(Head(b))
    ELSE DigitsGreater(Tail(a), Tail(b))

\* strconv.Atoi reports a range error: the value exceeds the largest int (64 bits).
AtoiOutOfRange(d) ==
    LET z == StripZeros(d)
    IN  \/ Len(z) > Len(MaxInt64Digits)
        \/ Len(z) = Len(MaxInt64Digits) /\ DigitsGreater(z, MaxInt64Digits)

\* strconv.Atoi of a digit run that is in range.
RECURSIVE Atoi(_)
Atoi(d) == IF d = <<>> THEN 0 ELSE 10 * Atoi(SubSeq(d, 1, Len(d) - 1)) + DigitVal(d[Len(d)])

\* A *string: nil, or a pointer to str.
NilName == [isNil |-> TRUE, str |-> <<>>]
Name(s) == [isNil |-> FALSE, str |-> s]

\* extractSprintNumber: err = "" on success.
extractSprintNumber(iterationName) ==
    IF iterationName.isNil THEN [n |-> 0, err |-> "iteration name is nil"]
    ELSE LET digits == FindStringSubmatch(iterationName.str)
         IN  IF digits = <<>>
             THEN [n |-> 0, err |-> "iteration name does not contain sprint number"]
             ELSE IF AtoiOutOfRange(digits)
             THEN [n |-> 0, err |-> "could not parse sprint number from iteration name"]
             ELSE [n |-> Atoi(digits), err |-> ""]

\* ------------------------------------------------------- pure functions of main.go

\* findPointsCompleted: first record with calculate set and the sprint's number; else -1.
findPointsCompleted(sprintNumber, pd) ==
    LET hits == {i \in 1..Len(pd) : pd[i].calculate /\ pd[i].sprint = sprintNumber}
    IN  IF hits = {} THEN -1
        ELSE pd[CHOOSE i \in hits : \A j \in hits : i <= j].completed

\* Mutant: the sentinel is tested before the zero days.
SentinelBeforeZeroDays(completed, days_available) ==
    IF completed = -1 THEN Rat(1, 2)
    ELSE IF days_available = 0 THEN RatInt(0)
    ELSE RatDiv(RatInt(completed), RatInt(days_available))

\* As written in the source: zero days first, then the sentinel, then the division.
pointsCompletedDividedByTotalDaysAvailable(completed, days_available) ==
    IF days_available = 0 THEN RatInt(0)
    ELSE IF completed = -1 THEN Rat(1, 2)
    ELSE RatDiv(RatInt(completed), RatInt(days_available))

\* Forecast: an int; 0 when the row does not qualify.
Forecast(daysAvailable, pointsCompleted, avgCompleted) ==
    IF pointsCompleted.n = 0 /\ daysAvailable.n > 0
    THEN MathRound(RatMul(daysAvailable, avgCompleted))
    ELSE 0

\* SQLite's AVG over the rows with points_completed <> 0: NULL when there are none.
RECURSIVE SumRatio(_)
SumRatio(rows) ==
    IF rows = <<>> THEN RatInt(0)
    ELSE RatAdd(Head(rows).pnts_complete_for_totaldays, SumRatio(Tail(rows)))

\* Mutant: the subquery has no WHERE clause.
QualifiesEveryRow(r) == TRUE

Qualifies(r) == r.points_completed # 0

AvgSubquery(rows) ==
    LET q == SelectSeq(rows, Qualifies)
    IN  IF q = <<>> THEN Null ELSE RatDiv(SumRatio(q), RatInt(Len(q)))

\* The UPDATE has no WHERE clause of its own: every row receives the subquery's value.
UpdateAllAvg(rows) ==
    [i \in 1..Len(rows) |-> [rows[i] EXCEPT !.avg_pnts_complete = AvgSubquery(rows)]]

\* rowsY.Scan(&id, &points_completed, &avg_pnts_complete, &days_available) with
\* avg_pnts_complete a float64 and days_available an int.  database/sql refuses NULL
\* for a float64, and converts a REAL to an int through its shortest decimal text,
\* which parses as an integer only when the value has no fraction.
ScanForecastRowOk(r) == r.avg_pnts_complete # Null /\ r.days_available.d = 1

\* rowsX.Scan of the report: avg_pnts_complete is a float64 (NULL is refused);
\* forecasted_completed is a sql.NullInt64 (NULL is accepted).
ScanReportRowOk(r) == r.avg_pnts_complete # Null

\* ------------------------------------------------------------------ inputs

SeqsUpTo(S, n) == UNION {[1..k -> S] : k \in 0..n}

NameSet ==
    { NilName,
      Name(<<"R", "e", "t", "r", "o">>),
      Name(<<"S", "p", "r", "i", "n", "t", " ", "1">>),
      Name(<<"Q", " ", "S", "p", "r", "i", "n", "t", " ", "\t", "0", "2">>) }

\* Entries of points_completed.json: recorded completions of 0 or 3 points for sprint
\* 1 or 2, and one entry that is not to be used.
RecordSet ==
    [sprint : {1, 2}, completed : {0, 3}, calculate : {TRUE}]
        \cup {[sprint |-> 1, completed |-> 3, calculate |-> FALSE]}

\* sprintStart of arguments.json.
SprintStartSet == {1, 2}

\* daysInSprint of arguments.json; 0 when the file does not give the field.
DaysInSprintSet == {RatInt(0), RatInt(3)}

\* Answers of the capacity service for one iteration.
CapacityUnknown == [status |-> "unknown", cap |-> RatInt(0), off |-> 0]
CapacityError == [status |-> "error", cap |-> RatInt(0), off |-> 0]
CapacityOk == [status : {"ok"}, cap : {Rat(1, 2), RatInt(1)}, off : {0, 2}]

\* What an earlier run of the program may have left in data.sqlite.
StaleTable ==
    << [ id |-> 1,
         name |-> <<"S", "p", "r", "i", "n", "t", " ", "9">>,
         sprint_number |-> 9,
         days_available |-> RatInt(3),
         capacity_per_day |-> RatInt(1),
         days_off |-> 0,
         points_completed |-> 3,
         pnts_complete_for_totaldays |-> RatInt(1),
         avg_pnts_complete |-> RatInt(1),
         forecasted_completed |-> RatInt(0) ] >>

NoFault == [kind |-> "none", at |-> 0]
Fault(k, i) == [kind |-> k, at |-> i]

\* ------------------------------------------------------------------ state

VARIABLES
    pointsData,    \* decoded content of points_completed.json
    sprintStart,   \* arguments.json: sprintStart
    daysInSprint,  \* arguments.json: daysInSprint
    iterations,    \* what GetTeamIterations returns: the iterations' names, in order
    capacity,      \* what the capacity service answers per iteration, once asked
    pc,            \* position of main()
    idx,           \* index of the ingestion loop in iterations
    dbFile,        \* data.sqlite exists
    table,         \* committed rows of iteration_capacity, by ascending id
    seq,           \* AUTOINCREMENT counter of the file
    txTable,       \* the rows as the open transaction sees them
    cursor,        \* position of rowsY in the forecast loop
    skipped,       \* ids of the rows whose Scan failed in the forecast loop
    exitCode,      \* -1 while running, then the process's exit status
    fault,         \* the failure that ended the run, NoFault when none
    reportStarted, \* the report's SELECT has been issued
    report,        \* rows printed by the report
    run,           \* number of the current run
    prevTable,     \* the table as the previous run left it
    prevFault      \* how the previous run ended

inputs == <<pointsData, sprintStart, daysInSprint, iterations>>
dbVars == <<dbFile, table, seq>>
txVars == <<txTable, cursor, skipped>>
outVars == <<reportStarted, report>>
runVars == <<run, prevTable, prevFault>>
vars == <<inputs, capacity, pc, idx, dbVars, txVars, exitCode, fault, outVars, runVars>>

Init ==
    /\ pointsData \in SeqsUpTo(RecordSet, MaxRecords)
    /\ sprintStart \in SprintStartSet
    /\ daysInSprint \in DaysInSprintSet
    /\ iterations \in SeqsUpTo(NameSet, MaxIter)
    /\ capacity = [i \in 1..Len(iterations) |-> CapacityUnknown]
    /\ pc = "readPoints"
    /\ idx = 1
    /\ dbFile \in BOOLEAN
    /\ table = IF dbFile THEN StaleTable ELSE <<>>
    /\ seq = Len(table)
    /\ txTable = <<>>
    /\ cursor = 1
    /\ skipped = {}
    /\ exitCode = -1
    /\ fault = NoFault
    /\ reportStarted = FALSE
    /\ report = <<>>
    /\ run = 1
    /\ prevTable = <<>>
    /\ prevFault = NoFault

\* os.Exit(code), a return from main, or a panic: the process ends.  The deferred
\* tx.Rollback() discards what the open transaction wrote.
Terminate(code, f) ==
    /\ pc' = "exited"
    /\ exitCode' = code
    /\ fault' = f
    /\ txTable' = <<>>

\* ------------------------------------------------------------------ setup

ReadPoints ==
    /\ pc = "readPoints"
    /\ pc' = "readArgs"
    /\ UNCHANGED <<inputs, capacity, idx, dbVars, txVars, exitCode, fault, outVars, runVars>>

ReadPointsFail ==
    /\ pc = "readPoints"
    /\ Terminate(1, Fault("points", 0))
    /\ UNCHANGED <<inputs, capacity, idx, dbVars, cursor, skipped, outVars, runVars>>

ReadArgs ==
    /\ pc = "readArgs"
    /\ pc' = "removeDb"
    /\ UNCHANGED <<inputs, capacity, idx, dbVars, txVars, exitCode, fault, outVars, runVars>>

ReadArgsFail ==
    /\ pc = "readArgs"
    /\ Terminate(1, Fault("args", 0))
    /\ UNCHANGED <<inputs, capacity, idx, dbVars, cursor, skipped, outVars, runVars>>

\* Mutant: the existing file is kept.
RemoveDbKeepsFile ==
    /\ pc = "removeDb"
    /\ pc' = "openDb"
    /\ UNCHANGED <<inputs, capacity, idx, dbVars, txVars, exitCode, fault, outVars, runVars>>

\* os.Stat, then os.Remove when the file is there: the table and its counter go with it.
RemoveDb ==
    /\ pc = "removeDb"
    /\ pc' = "openDb"
    /\ dbFile' = FALSE
    /\ table' = <<>>
    /\ seq' = 0
    /\ UNCHANGED <<inputs, capacity, idx, txVars, exitCode, fault, outVars, runVars>>

RemoveDbFail ==
    /\ pc = "removeDb"
    /\ dbFile
    /\ Terminate(0, Fault("remove", 0))
    /\ UNCHANGED <<inputs, capacity, idx, dbVars, cursor, skipped, outVars, runVars>>

OpenDb ==
    /\ pc = "openDb"
    /\ pc' = "createTable"
    /\ UNCHANGED <<inputs, capacity, idx, dbVars, txVars, exitCode, fault, outVars, runVars>>

OpenDbFail ==
    /\ pc = "openDb"
    /\ Terminate(0, Fault("open", 0))
    /\ UNCHANGED <<inputs, capacity, idx, dbVars, cursor, skipped, outVars, runVars>>

\* CREATE TABLE IF NOT EXISTS: rows already in the file stay.
CreateTable ==
    /\ pc = "createTable"
    /\ pc' = "fetchIterations"
    /\ dbFile' = TRUE
    /\ UNCHANGED <<inputs, capacity, idx, table, seq, txVars, exitCode, fault, outVars, runVars>>

CreateTableFail ==
    /\ pc = "createTable"
    /\ Terminate(0, Fault("create", 0))
    /\ UNCHANGED <<inputs, capacity, idx, dbVars, cursor, skipped, outVars, runVars>>

FetchIterations ==
    /\ pc = "fetchIterations"
    /\ pc' = "ingest"
    /\ idx' = 1
    /\ UNCHANGED <<inputs, capacity, dbVars, txVars, exitCode, fault, outVars, runVars>>

FetchIterationsFail ==
    /\ pc = "fetchIterations"
    /\ Terminate(1, Fault("iterations", 0))
    /\ UNCHANGED <<inputs, capacity, idx, dbVars, cursor, skipped, outVars, runVars>>

\* ------------------------------------------------------------------ ingestion

InLoop == pc = "ingest" /\ idx <= Len(iterations)

\* The iteration's sprint number was extracted and is not below sprintStart.
WorkingOn(i) ==
    LET r == extractSprintNumber(iterations[i])
    IN  r.err = "" /\ r.n >= sprintStart

\* The capacity service answers resp for iteration i: the same every time it is asked.
Answers(i, resp) == capacity[i] \in {CapacityUnknown, resp}

\* The row the loop body inserts for iteration i, given the service's answer.
NewRow(i, resp) ==
    LET sprintNum == extractSprintNumber(iterations[i]).n
        daysAvailable == RatSub(RatMul(resp.cap, daysInSprint), RatInt(resp.off))
        pointsCompleted == findPointsCompleted(sprintNum, pointsData)
    IN  [ id |-> seq + 1,
          name |-> iterations[i].str,
          sprint_number |-> sprintNum,
          days_available |-> daysAvailable,
          capacity_per_day |-> resp.cap,
          days_off |-> resp.off,
          points_completed |-> pointsCompleted,
          pnts_complete_for_totaldays |->
              pointsCompletedDividedByTotalDaysAvailable(pointsCompleted,
                                                         TruncToInt(daysAvailable)),
          avg_pnts_complete |-> Null,
          forecasted_completed |-> Null ]

\* extractSprintNumber fails on a name that is there: logged, next iteration.
ExtractFail ==
    /\ InLoop
    /\ ~iterations[idx].isNil
    /\ extractSprintNumber(iterations[idx]).err # ""
    /\ idx' = idx + 1
    /\ UNCHANGED <<inputs, capacity, pc, dbVars, txVars, exitCode, fault, outVars, runVars>>

\* extractSprintNumber fails on a nil name: the log line dereferences the nil pointer,
\* the goroutine panics and the process ends with status 2.
ExtractNilPanic ==
    /\ InLoop
    /\ iterations[idx].isNil
    /\ Terminate(2, Fault("nilname", idx))
    /\ UNCHANGED <<inputs, capacity, idx, dbVars, cursor, skipped, outVars, runVars>>

BelowSprintStart ==
    /\ InLoop
    /\ extractSprintNumber(iterations[idx]).err = ""
    /\ extractSprintNumber(iterations[idx]).n < sprintStart
    /\ idx' = idx + 1
    /\ UNCHANGED <<inputs, capacity, pc, dbVars, txVars, exitCode, fault, outVars, runVars>>

\* fetchIterationCapacity fails: logged, next iteration.
FetchCapacityFail ==
    /\ InLoop
    /\ WorkingOn(idx)
    /\ Answers(idx, CapacityError)
    /\ capacity' = [capacity EXCEPT ![idx] = CapacityError]
    /\ idx' = idx + 1
    /\ UNCHANGED <<inputs, pc, dbVars, txVars, exitCode, fault, outVars, runVars>>

InsertRow ==
    /\ InLoop
    /\ WorkingOn(idx)
    /\ \E resp \in CapacityOk :
        /\ Answers(idx, resp)
        /\ capacity' = [capacity EXCEPT ![idx] = resp]
        /\ table' = Append(table, NewRow(idx, resp))
    /\ seq' = seq + 1
    /\ idx' = idx + 1
    /\ UNCHANGED <<inputs, pc, dbFile, txVars, exitCode, fault, outVars, runVars>>

\* The INSERT fails: main returns.
InsertRowFail ==
    /\ InLoop
    /\ WorkingOn(idx)
    /\ \E resp \in CapacityOk :
        /\ Answers(idx, resp)
        /\ capacity' = [capacity EXCEPT ![idx] = resp]
    /\ Terminate(0, Fault("insert", idx))
    /\ UNCHANGED <<inputs, idx, dbVars, cursor, skipped, outVars, runVars>>

\* ------------------------------------------------------------------ average pass

LoopDone == pc = "ingest" /\ idx > Len(iterations)

UpdateAverage ==
    /\ LoopDone
    /\ table' = UpdateAllAvg(table)
    /\ pc' = "begin"
    /\ UNCHANGED <<inputs, capacity, idx, dbFile, seq, txVars, exitCode, fault, outVars, runVars>>

\* Mutant: the failed UPDATE is logged and main goes on.
UpdateAverageFailGoesOn ==
    /\ LoopDone
    /\ pc' = "begin"
    /\ UNCHANGED <<inputs, capacity, idx, dbVars, txVars, exitCode, fault, outVars, runVars>>

UpdateAverageFail ==
    /\ LoopDone
    /\ Terminate(0, Fault("average", 0))
    /\ UNCHANGED <<inputs, capacity, idx, dbVars, cursor, skipped, outVars, runVars>>

\* ------------------------------------------------------------------ forecast pass

BeginTx ==
    /\ pc = "begin"
    /\ txTable' = table
    /\ pc' = "query"
    /\ UNCHANGED <<inputs, capacity, idx, dbVars, cursor, skipped, exitCode, fault, outVars, runVars>>

BeginTxFail ==
    /\ pc = "begin"
    /\ Terminate(0, Fault("begin", 0))
    /\ UNCHANGED <<inputs, capacity, idx, dbVars, cursor, skipped, outVars, runVars>>

QueryRows ==
    /\ pc = "query"
    /\ cursor' = 1
    /\ skipped' = {}
    /\ pc' = "forecast"
    /\ UNCHANGED <<inputs, capacity, idx, dbVars, txTable, exitCode, fault, outVars, runVars>>

QueryRowsFail ==
    /\ pc = "query"
    /\ Terminate(0, Fault("query", 0))
    /\ UNCHANGED <<inputs, capacity, idx, dbVars, cursor, skipped, outVars, runVars>>

InForecastLoop == pc = "forecast" /\ cursor <= Len(txTable)

\* rowsY.Scan fails: logged, and the loop continues with the next row.
ScanRowFail ==
    /\ InForecastLoop
    /\ ~ScanForecastRowOk(txTable[cursor])
    /\ skipped' = skipped \cup {txTable[cursor].id}
    /\ cursor' = cursor + 1
    /\ UNCHANGED <<inputs, capacity, pc, idx, dbVars, txTable, exitCode, fault, outVars, runVars>>

\* The value the loop body writes to forecasted_completed for row r.
ForecastOfRow(r) ==
    RatInt(Forecast(RatInt(TruncToInt(r.days_available)),
                    RatInt(r.points_completed),
                    r.avg_pnts_complete))

ForecastRow ==
    /\ InForecastLoop
    /\ ScanForecastRowOk(txTable[cursor])
    /\ txTable' = [txTable EXCEPT ![cursor].forecasted_completed = ForecastOfRow(txTable[cursor])]
    /\ cursor' = cursor + 1
    /\ UNCHANGED <<inputs, capacity, pc, idx, dbVars, skipped, exitCode, fault, outVars, runVars>>

\* The UPDATE of the row fails: main returns and the deferred Rollback runs.
ForecastRowFail ==
    /\ InForecastLoop
    /\ ScanForecastRowOk(txTable[cursor])
    /\ Terminate(0, Fault("update", cursor))
    /\ UNCHANGED <<inputs, capacity, idx, dbVars, cursor, skipped, outVars, runVars>>

ForecastLoopDone == pc = "forecast" /\ cursor > Len(txTable)

Commit ==
    /\ ForecastLoopDone
    /\ table' = txTable
    /\ txTable' = <<>>
    /\ pc' = "report"
    /\ UNCHANGED <<inputs, capacity, idx, dbFile, seq, cursor, skipped, exitCode, fault, outVars, runVars>>

CommitFail ==
    /\ ForecastLoopDone
    /\ Terminate(0, Fault("commit", 0))
    /\ UNCHANGED <<inputs, capacity, idx, dbVars, cursor, skipped, outVars, runVars>>

\* ------------------------------------------------------------------ report

ReportQueryFail ==
    /\ pc = "report"
    /\ Terminate(0, Fault("reportquery", 0))
    /\ UNCHANGED <<inputs, capacity, idx, dbVars, cursor, skipped, outVars, runVars>>

\* Every row scans and is printed; main returns.
ReportRows ==
    /\ pc = "report"
    /\ \A i \in 1..Len(table) : ScanReportRowOk(table[i])
    /\ reportStarted' = TRUE
    /\ report' = table
    /\ Terminate(0, NoFault)
    /\ UNCHANGED <<inputs, capacity, idx, dbVars, cursor, skipped, runVars>>

\* A row does not scan: the rows before it are printed, then main returns.
ReportScanFail ==
    /\ pc = "report"
    /\ \E i \in 1..Len(table) :
        /\ ~ScanReportRowOk(table[i])
        /\ \A j \in 1..(i - 1) : ScanReportRowOk(table[j])
        /\ report' = SubSeq(table, 1, i - 1)
        /\ Terminate(0, Fault("reportscan", i))
    /\ reportStarted' = TRUE
    /\ UNCHANGED <<inputs, capacity, idx, dbVars, cursor, skipped, runVars>>

\* ------------------------------------------------------------------ the next run

\* The program is started again: same files, same services, the database file as left.
Rerun ==
    /\ pc = "exited"
    /\ run = 1
    /\ run' = run + 1
    /\ prevTable' = table
    /\ prevFault' = fault
    /\ pc' = "readPoints"
    /\ idx' = 1
    /\ cursor' = 1
    /\ skipped' = {}
    /\ exitCode' = -1
    /\ fault' = NoFault
    /\ reportStarted' = FALSE
    /\ report' = <<>>
    /\ UNCHANGED <<inputs, capacity, dbVars, txTable>>

\* ------------------------------------------------------------------ specifications

Next ==
    \/ ReadPoints \/ ReadPointsFail
    \/ ReadArgs \/ ReadArgsFail
    \/ RemoveDb \/ RemoveDbFail
    \/ OpenDb \/ OpenDbFail
    \/ CreateTable \/ CreateTableFail
    \/ FetchIterations \/ FetchIterationsFail
    \/ ExtractFail \/ ExtractNilPanic \/ BelowSprintStart
    \/ FetchCapacityFail \/ InsertRow \/ InsertRowFail
    \/ UpdateAverage \/ UpdateAverageFail
    \/ BeginTx \/ BeginTxFail
    \/ QueryRows \/ QueryRowsFail
    \/ ScanRowFail \/ ForecastRow \/ ForecastRowFail
    \/ Commit \/ CommitFail
    \/ ReportRows \/ ReportScanFail \/ ReportQueryFail

Spec == Init /\ [][Next]_vars

\* The program run twice in a row.
NextRerun == Next \/ Rerun

SpecRerun == Init /\ [][NextRerun]_vars

\* ------------------------------------------------------------------ claims

\* Where the run stands.
AfterRemoveDb ==
    /\ pc \notin {"readPoints", "readArgs", "removeDb"}
    /\ ~(pc = "exited" /\ fault.kind \in {"points", "args", "remove"})

AveragePassDone ==
    \/ pc \in {"begin", "query", "forecast", "report"}
    \/ pc = "exited" /\ fault.kind \in {"begin", "query", "update", "commit",
                                        "reportquery", "reportscan", "none"}

ForecastPassCommitted ==
    \/ pc = "report"
    \/ pc = "exited" /\ fault.kind \in {"reportquery", "reportscan", "none"}

Rows == {table[i] : i \in 1..Len(table)}

\* C1 (as claimed): after a committed forecast pass, a row whose pointsCompleted is not 0
\* or whose daysAvailable is <= 0 has forecastedCompleted NULL, never 0 or another number.
C1_NonQualifyingRowsHaveNullForecast ==
    ForecastPassCommitted =>
        \A r \in Rows :
            (r.points_completed # 0 \/ r.days_available.n <= 0)
                => r.forecasted_completed = Null

\* C2 (as claimed): after a committed forecast pass, a row with pointsCompleted = 0 and
\* daysAvailable > 0 has forecastedCompleted = round(daysAvailable * avgEfficiencyRatio),
\* with the stored, untruncated daysAvailable (rows of a run that has an average).
C2_QualifyingRowsHaveRoundedForecast ==
    ForecastPassCommitted =>
        \A r \in Rows :
            (r.points_completed = 0 /\ r.days_available.n > 0 /\ r.avg_pnts_complete # Null)
                => r.forecasted_completed
                     = RatInt(MathRound(RatMul(r.days_available, r.avg_pnts_complete)))

\* t is x with its fraction discarded.
IsTruncationOf(t, x) ==
    IF x.n >= 0 THEN t * x.d <= x.n /\ x.n < (t + 1) * x.d
    ELSE (t - 1) * x.d < x.n /\ x.n <= t * x.d

\* C3: every stored efficiencyRatio follows the three-way policy on t = daysAvailable
\* truncated toward zero: 0 when t = 0 (also for the -1 sentinel), else 1/2 for the
\* sentinel, else pointsCompleted / t.
C3_EfficiencyRatioPolicy ==
    \A r \in Rows :
        \E t \in -Abs(r.days_available.n) .. Abs(r.days_available.n) :
            /\ IsTruncationOf(t, r.days_available)
            /\ LET ratio == r.pnts_complete_for_totaldays
               IN  /\ t = 0 => ratio = RatInt(0)
                   /\ (t # 0 /\ r.points_completed = -1) => ratio.n = 1 /\ ratio.d = 2
                   /\ (t # 0 /\ r.points_completed # -1)
                        => ratio.d > 0 /\ ratio.n * t = r.points_completed * ratio.d

\* C3 witness: a sentinel row whose days are not 0 but truncate to 0 got ratio 0, and a
\* row with a recorded completion got a quotient that is not 0.
C3_Witness ==
    /\ AfterRemoveDb
    /\ \E r \in Rows :
        /\ r.points_completed = -1
        /\ r.days_available.n # 0
        /\ Abs(r.days_available.n) < r.days_available.d
        /\ r.pnts_complete_for_totaldays = RatInt(0)
    /\ \E r \in Rows :
        /\ r.points_completed = 3
        /\ r.days_available.d = 2
        /\ r.pnts_complete_for_totaldays.n # 0

\* Product of the ratios' denominators over the rows numbered in S.
RECURSIVE DenProduct(_)
DenProduct(S) ==
    IF S = {} THEN 1
    ELSE LET i == CHOOSE x \in S : TRUE
         IN  table[i].pnts_complete_for_totaldays.d * DenProduct(S \ {i})

\* Sum over S of the ratios, as a numerator over the denominator D.
RECURSIVE NumSum(_, _)
NumSum(S, D) ==
    IF S = {} THEN 0
    ELSE LET i == CHOOSE x \in S : TRUE
             q == table[i].pnts_complete_for_totaldays
         IN  q.n * (D \div q.d) + NumSum(S \ {i}, D)

\* a is the arithmetic mean of the ratios of the rows numbered in S; NULL when S is empty.
IsMeanOver(a, S) ==
    IF S = {} THEN a = Null
    ELSE /\ a.d > 0
         /\ a.n * DenProduct(S) * Cardinality(S) = NumSum(S, DenProduct(S)) * a.d

Included == {i \in 1..Len(table) : table[i].points_completed # 0}

\* The table with the ratio of every excluded row replaced by v.
WithExcludedRatio(v) ==
    [i \in 1..Len(table) |->
        IF i \in Included THEN table[i]
        ELSE [table[i] EXCEPT !.pnts_complete_for_totaldays = v]]

\* C4: after the average pass every row holds the same avgEfficiencyRatio, the mean of
\* efficiencyRatio over exactly the rows with pointsCompleted # 0 (sentinel rows in, rows
\* with 0 out); another ratio in an excluded row gives the same value; NULL in every row
\* when no row qualifies.
C4_AverageOverNonZeroRows ==
    AveragePassDone =>
        /\ \A r \in Rows : IsMeanOver(r.avg_pnts_complete, Included)
        /\ \A v \in {RatInt(7), Rat(-1, 3)} :
               AvgSubquery(WithExcludedRatio(v)) = AvgSubquery(table)

\* C4 witness: the pass ran over a sentinel row and an excluded row, and wrote an
\* average that is not 0.
C4_Witness ==
    /\ AveragePassDone
    /\ Len(table) >= 2
    /\ \E i \in Included : table[i].points_completed = -1
    /\ \E i \in 1..Len(table) : i \notin Included
    /\ \A r \in Rows : r.avg_pnts_complete # Null /\ r.avg_pnts_complete.n # 0

\* The run ended inside the ingestion loop or later.
EndedInOrAfterLoop ==
    /\ pc = "exited"
    /\ fault.kind \notin {"points", "args", "remove", "open", "create", "iterations"}

\* C5 (as claimed): a failed sprint-number extraction (nil name, or no match) never ends
\* the run: the run does not stop at an iteration whose extraction fails.
C5_ExtractionFailureNeverFatal ==
    (EndedInOrAfterLoop /\ idx <= Len(iterations))
        => extractSprintNumber(iterations[idx]).err = ""

\* The iterations, in order, that yield a sprint number >= sprintStart and whose
\* capacity fetch succeeded.
Kept == {i \in 1..Len(iterations) : WorkingOn(i) /\ capacity[i].status = "ok"}

\* Number of kept iterations before i, plus one.
Rank(i) == Cardinality({j \in Kept : j <= i})

\* C6 (as claimed): when no INSERT fails, at the end of ingestion every iteration has
\* been processed, and the table holds exactly one row per kept iteration, in iteration
\* order with ascending ids.
C6_OneRowPerKeptIteration ==
    ((AveragePassDone \/ LoopDone \/ EndedInOrAfterLoop) /\ fault.kind # "insert") =>
        /\ \A i \in 1..Len(iterations) : WorkingOn(i) => capacity[i].status # "unknown"
        /\ Len(table) = Cardinality(Kept)
        /\ \A i \in Kept :
            /\ table[Rank(i)].id = Rank(i)
            /\ table[Rank(i)].name = iterations[i].str
            /\ table[Rank(i)].sprint_number = extractSprintNumber(iterations[i]).n

\* C7 (as claimed): a fatal setup failure ends the process with a non-zero status and
\* no report; a run with per-iteration failures only ends with status 0.
C7_ExitStatus ==
    pc = "exited" =>
        /\ fault.kind \in {"points", "args", "iterations", "open", "create"}
             => exitCode # 0 /\ ~reportStarted
        /\ fault.kind \in {"none", "nilname"} => exitCode = 0

\* C8: ingestion starts from an empty table with a fresh id counter, and a second run
\* that ends as the first did leaves the table the first run left.
C8_RunsRebuildTheTable ==
    /\ (pc = "ingest" /\ idx = 1) => table = <<>> /\ seq = 0
    /\ (run = 2 /\ pc = "exited" /\ fault = prevFault) => table = prevTable

\* C8 witness: both runs went through to the report over a table of two rows.
C8_Witness ==
    /\ run = 2
    /\ pc = "exited"
    /\ fault = NoFault
    /\ prevFault = NoFault
    /\ Len(table) = 2
    /\ \E r \in Rows : r.forecasted_completed.n > 0

\* A forecast of this run exists, or the forecast loop is running.
ForecastUnderWay ==
    \/ pc \in {"query", "forecast"}
    \/ \E i \in 1..Len(txTable) : txTable[i].forecasted_completed # Null
    \/ ForecastPassCommitted

\* C9: no forecast is computed before ingestion is over and every row holds the final
\* average, which the forecast pass leaves as it is; no forecast after a failed average
\* write.
C9_AverageBarrier ==
    /\ ForecastUnderWay =>
        /\ idx = Len(iterations) + 1
        /\ \A r \in Rows : IsMeanOver(r.avg_pnts_complete, Included)
        /\ \A i \in 1..Len(txTable) :
               txTable[i].avg_pnts_complete = table[i].avg_pnts_complete
    /\ (pc = "exited" /\ fault.kind = "average") =>
        /\ txTable = <<>>
        /\ \A r \in Rows : r.forecasted_completed = Null

\* C9 witness: the forecast loop has computed a forecast from an average that exists,
\* with a row still to come.
C9_Witness ==
    /\ pc = "forecast"
    /\ cursor <= Len(txTable)
    /\ \E i \in 1..Len(txTable) : txTable[i].forecasted_completed.n > 0
    /\ \A r \in Rows : r.avg_pnts_complete # Null

\* C10 (as claimed): a failure in the forecast pass, reading a row or writing its
\* forecast, aborts the pass: no forecast of the pass persists and no report is printed;
\* forecasts are visible only when the pass processed every row and committed.
C10_ForecastPassAllOrNothing ==
    /\ (pc = "exited" /\ (skipped # {} \/ fault.kind = "update")) =>
        /\ \A r \in Rows : r.forecasted_completed = Null
        /\ ~reportStarted
    /\ (AfterRemoveDb /\ \E r \in Rows : r.forecasted_completed # Null) =>
        /\ ForecastPassCommitted
        /\ skipped = {}

====
